---- MODULE Spec2Model ----
(***************************************************************************)
(* Model of process_images_enhanced.py: the pixel-level transparency       *)
(* refinement (ensure_transparency), the interactive option prompts        *)
(* (select_model, select_options) and the batch driver (main and           *)
(* process_image_advanced, with the top-level exception handlers).         *)
(*                                                                         *)
(* Three specifications share the variables:                               *)
(*   SpecRefine   ensure_transparency, pass by pass, applied once and then *)
(*                a second time to its own result;                         *)
(*   SpecOptions  select_options on typed answers;                         *)
(*   Spec         the whole run of main under the __main__ handlers.       *)
(***************************************************************************)
EXTENDS Integers, Sequences, FiniteSets, TLC

VARIABLES
    \* ---- ensure_transparency ----
    image,      \* the PIL image handed to ensure_transparency: [mode, px]
    data,       \* the numpy array `data` (coordinate -> <<R,G,B,A>>), or NoData
    hist,       \* the values `data` has had: after np.array, pass 1, pass 2, pass 3
    rpc,        \* position inside ensure_transparency
    run,        \* 1 for the first application, 2 for the re-application
    first,      \* the image returned by the first application, or NoData
    orig,       \* the image the first application was given
    \* ---- select_options ----
    alpha_matting_input, mask_only_input,   \* the answers as typed (raw lines)
    alpha_matting, only_mask,               \* the returned flags
    \* ---- main / process_image_advanced ----
    pc,         \* position of the run
    directory,  \* entries of the input folder
    images,     \* the list returned by get_images_to_process
    model_name, \* the selected model
    idx,        \* the loop counter i of main (1-based), image being processed
    stage,      \* the step of process_image_advanced in progress
    successful, failed,
    output,     \* the output folder: file name -> NoFile or [by, state]
    attempts,   \* the images process_image_advanced was called for, in order
    results,    \* the value `success` returned for each of them
    exitcode,   \* process exit status, or NoExit while running
    message     \* the last top-level message printed

refvars == <<image, data, hist, rpc, run, first, orig>>
optvars == <<alpha_matting_input, mask_only_input, alpha_matting, only_mask>>
mainvars == <<pc, directory, images, model_name, idx, stage, successful, failed,
              output, attempts, results, exitcode, message>>
vars == <<refvars, optvars, mainvars>>

(***************************************************************************)
(* Bounds of the model.                                                    *)
(***************************************************************************)
MaxPixels == 4     \* pixels (height * width) of the multi-pixel buffers
MaxLen == 2        \* length of a typed answer
MaxFiles == 3      \* entries in the input folder

\* Channel values the single-pixel buffers range over: both sides of every
\* threshold of the three passes (240, 50, 200, mean 200) and the extremes.
RGBVals == {0, 10, 200, 210, 240, 241, 255}
AlphaVals == {0, 1, 30, 49, 50, 120, 199, 200, 255}
\* Pixels of the multi-pixel buffers.
Palette == {<<250, 250, 250, 255>>, <<10, 10, 10, 255>>, <<0, 0, 0, 30>>,
            <<210, 210, 200, 120>>}
\* Grey levels of a mode-L image (the mask of only_mask=True).
GreyVals == {0, 128, 241, 255}

NoData == "none"

(***************************************************************************)
(* ensure_transparency                                                     *)
(***************************************************************************)
threshold == 240
edge_threshold == 200
semi_threshold == 50
mean_threshold == 200

\* numpy uint8 arithmetic: red, green and blue are uint8 views of data, and
\* the sum of two uint8 arrays is a uint8 array (it wraps modulo 256).
U8(x) == x % 256

Coords(h, w) == (1..h) \X (1..w)

\* image.convert('RGBA'): an RGBA image is kept; a mode-L pixel is replicated
\* over R, G, B with a fully opaque alpha.
ToRGBA(img) ==
    IF img.mode = "RGBA" THEN img.px
    ELSE [c \in DOMAIN img.px |->
            <<img.px[c][1], img.px[c][1], img.px[c][1], 255>>]

\* Variant of white_pixels with non-strict comparisons.
white_pixels_ge(d) ==
    {c \in DOMAIN d : d[c][1] >= threshold /\ d[c][2] >= threshold /\ d[c][3] >= threshold}

\* white_pixels = (red > threshold) & (green > threshold) & (blue > threshold)
white_pixels(d) ==
    {c \in DOMAIN d : d[c][1] > threshold /\ d[c][2] > threshold /\ d[c][3] > threshold}

\* Variant of Pass1 that writes an opaque white pixel.
Pass1_opaque(d) ==
    [c \in DOMAIN d |-> IF c \in white_pixels(d) THEN <<255, 255, 255, 255>> ELSE d[c]]

\* data[white_pixels] = [255, 255, 255, 0]
Pass1(d) ==
    [c \in DOMAIN d |-> IF c \in white_pixels(d) THEN <<255, 255, 255, 0>> ELSE d[c]]

\* Variant of semi_transparent with a non-strict comparison.
semi_transparent_le(d) == {c \in DOMAIN d : d[c][4] <= semi_threshold}

\* semi_transparent = alpha < 50
semi_transparent(d) == {c \in DOMAIN d : d[c][4] < semi_threshold}

\* Variant of Pass2 that indexes the colour channels (data[semi_transparent, :3] = 255).
Pass2_rgb(d) ==
    [c \in DOMAIN d |->
        IF c \in semi_transparent(d) THEN <<255, 255, 255, d[c][4]>> ELSE d[c]]

\* data[semi_transparent, 3] = 0
Pass2(d) ==
    [c \in DOMAIN d |-> IF c \in semi_transparent(d) THEN [d[c] EXCEPT ![4] = 0] ELSE d[c]]

\* edge_pixels = (alpha > 0) & (alpha < edge_threshold)
edge_pixels(d) == {c \in DOMAIN d : d[c][4] > 0 /\ d[c][4] < edge_threshold}

\* red + green + blue, evaluated left to right on uint8 arrays
rgb_sum(p) == U8(U8(p[1] + p[2]) + p[3])

\* edge_white = edge_pixels & ((red + green + blue) / 3 > 200); the division
\* is a true division, so s / 3 > 200 exactly when s > 3 * 200.
edge_white(d) == {c \in edge_pixels(d) : rgb_sum(d[c]) > 3 * mean_threshold}

\* data[edge_white, 3] = 0
Pass3(d) ==
    [c \in DOMAIN d |-> IF c \in edge_white(d) THEN [d[c] EXCEPT ![4] = 0] ELSE d[c]]

SinglePixelImages ==
    {[mode |-> "RGBA", px |-> [c \in Coords(1, 1) |-> <<r, g, b, a>>]] :
        r \in RGBVals, g \in RGBVals, b \in RGBVals, a \in AlphaVals}

PaletteImages ==
    UNION {{[mode |-> "RGBA", px |-> f] : f \in [Coords(hw[1], hw[2]) -> Palette]} :
            hw \in {d \in (1..MaxPixels) \X (1..MaxPixels) :
                            d[1] * d[2] > 1 /\ d[1] * d[2] <= MaxPixels}}

GreyImages ==
    {[mode |-> "L", px |-> [c \in Coords(1, 1) |-> <<l>>]] : l \in GreyVals}

\* lines 48-52: convert to RGBA if needed, data = np.array(image)
LoadData ==
    /\ rpc = "load"
    /\ data' = ToRGBA(image)
    /\ hist' = <<ToRGBA(image)>>
    /\ rpc' = "pass1"
    /\ UNCHANGED <<image, run, first, orig>>
    /\ UNCHANGED <<optvars, mainvars>>

\* lines 54-57
Pass1Step ==
    /\ rpc = "pass1"
    /\ data' = Pass1(data)
    /\ hist' = Append(hist, Pass1(data))
    /\ rpc' = "pass2"
    /\ UNCHANGED <<image, run, first, orig>>
    /\ UNCHANGED <<optvars, mainvars>>

\* lines 59-61
Pass2Step ==
    /\ rpc = "pass2"
    /\ data' = Pass2(data)
    /\ hist' = Append(hist, Pass2(data))
    /\ rpc' = "pass3"
    /\ UNCHANGED <<image, run, first, orig>>
    /\ UNCHANGED <<optvars, mainvars>>

\* lines 63-67
Pass3Step ==
    /\ rpc = "pass3"
    /\ data' = Pass3(data)
    /\ hist' = Append(hist, Pass3(data))
    /\ rpc' = "return"
    /\ UNCHANGED <<image, run, first, orig>>
    /\ UNCHANGED <<optvars, mainvars>>

\* line 69: return Image.fromarray(data, 'RGBA'); the caller then hands the
\* returned image to ensure_transparency once more.
Reapply ==
    /\ rpc = "return"
    /\ run = 1
    /\ first' = data
    /\ image' = [mode |-> "RGBA", px |-> data]
    /\ data' = NoData
    /\ hist' = <<>>
    /\ run' = 2
    /\ rpc' = "load"
    /\ orig' = orig
    /\ UNCHANGED <<optvars, mainvars>>

InitRefineVars ==
    /\ image \in SinglePixelImages \cup PaletteImages \cup GreyImages
    /\ data = NoData
    /\ hist = <<>>
    /\ rpc = "load"
    /\ run = 1
    /\ first = NoData
    /\ orig = image

(***************************************************************************)
(* Typed lines: sequences of characters.                                   *)
(***************************************************************************)
Chars == {"n", "N", "y", "Y", " "}
Typed == UNION {[1..k -> Chars] : k \in 0..MaxLen}

IsSpace(ch) == ch = " "

\* str.lower()
LowerChar(ch) == CASE ch = "N" -> "n" [] ch = "Y" -> "y" [] OTHER -> ch
Lower(s) == [i \in 1..Len(s) |-> LowerChar(s[i])]

\* str.strip(): drop leading and trailing whitespace
RECURSIVE LStrip(_)
LStrip(s) == IF s # <<>> /\ IsSpace(Head(s)) THEN LStrip(Tail(s)) ELSE s
RECURSIVE RStrip(_)
RStrip(s) ==
    IF s # <<>> /\ IsSpace(s[Len(s)]) THEN RStrip(SubSeq(s, 1, Len(s) - 1)) ELSE s
Strip(s) == RStrip(LStrip(s))

NoInput == <<"<unset>">>

(***************************************************************************)
(* select_options (lines 120-133)                                          *)
(***************************************************************************)
\* Variant of alpha_matting_of with the test of the mask-only prompt.
alpha_matting_sym(norm) == norm = <<"y">>

\* alpha_matting = alpha_matting_input != 'n'
alpha_matting_of(norm) == norm # <<"n">>
\* only_mask = mask_only_input == 'y'
only_mask_of(norm) == norm = <<"y">>

\* a and m are the two lines the user types
select_options(a, m) ==
    /\ pc = "select_options"
    /\ alpha_matting_input' = a
    /\ alpha_matting' = alpha_matting_of(Lower(Strip(a)))
    /\ mask_only_input' = m
    /\ only_mask' = only_mask_of(Lower(Strip(m)))
    /\ pc' = "new_session"
    /\ UNCHANGED <<directory, images, model_name, idx, stage, successful, failed,
                   output, attempts, results, exitcode, message>>
    /\ UNCHANGED refvars

(***************************************************************************)
(* The input folder and get_images_to_process (lines 35-44)                *)
(***************************************************************************)
SUPPORTED_FORMATS == {".jpg", ".jpeg", ".png", ".bmp", ".tiff", ".webp"}

\* A folder entry: Path.stem, Path.suffix and whether it is a regular file.
Entry(st, sx, isf) == [stem |-> st, suffix |-> sx, is_file |-> isf]
Candidates ==
    {Entry("a", ".jpg", TRUE), Entry("a", ".png", TRUE), Entry("a", ".JPG", TRUE),
     Entry("b", ".jpg", TRUE), Entry("b", ".txt", TRUE), Entry("c", ".png", FALSE)}
Directories == {d \in SUBSET Candidates : Cardinality(d) <= MaxFiles}

\* file.suffix.lower()
LowerSuffix(sx) == IF sx = ".JPG" THEN ".jpg" ELSE sx

\* Order of the paths: all entries share the folder, so sorted() compares the
\* file names, character by character in code-point order ('J' < 'j' < 'p' < 't').
StemOrd == [a |-> 1, b |-> 2, c |-> 3]
SuffixOrd == [s \in {".JPG", ".jpg", ".png", ".txt"} |->
                CASE s = ".JPG" -> 1 [] s = ".jpg" -> 2 [] s = ".png" -> 3 [] OTHER -> 4]
PathLess(f, g) ==
    \/ StemOrd[f.stem] < StemOrd[g.stem]
    \/ f.stem = g.stem /\ SuffixOrd[f.suffix] < SuffixOrd[g.suffix]

\* sorted(images)
RECURSIVE Sorted(_)
Sorted(S) ==
    IF S = {} THEN <<>>
    ELSE LET m == CHOOSE x \in S : \A y \in S \ {x} : PathLess(x, y)
         IN <<m>> \o Sorted(S \ {m})

get_images_to_process(dir) ==
    Sorted({f \in dir : f.is_file /\ LowerSuffix(f.suffix) \in SUPPORTED_FORMATS})

(***************************************************************************)
(* select_model (lines 106-118)                                            *)
(***************************************************************************)
MODELS == [k \in {"1", "2", "3", "4", "5"} |->
            CASE k = "1" -> "u2net" [] k = "2" -> "u2netp" [] k = "3" -> "u2net_human_seg"
              [] k = "4" -> "u2net_cloth_seg" [] OTHER -> "isnet-general-use"]
ModelLines == {<<>>, <<"7">>, <<" ", "5">>}
AnswerLines == {<<>>, <<"n">>, <<"y">>}

\* choice = input(...).strip() or '1'
ChoiceOf(line) == IF Strip(line) = <<>> THEN <<"1">> ELSE Strip(line)
InModels(choice) == Len(choice) = 1 /\ choice[1] \in DOMAIN MODELS

\* exitcode is <<>> while the process runs and <<status>> once it has exited
NoExit == <<>>
NoFile == [state |-> "absent"]
\* output_file = output_path / f"{input_path.stem}_no_bg.png"
OutName(f) == <<f.stem, "_no_bg.png">>
OutNames == {OutName(f) : f \in Candidates}

(***************************************************************************)
(* main (lines 135-209) under the handlers of lines 211-219                *)
(***************************************************************************)
\* lines 142-151: no image found, main returns
NoImages ==
    /\ pc = "scan"
    /\ get_images_to_process(directory) = <<>>
    /\ images' = <<>>
    /\ pc' = "exit"
    /\ exitcode' = <<0>>
    /\ message' = "no_images"
    /\ UNCHANGED <<directory, model_name, idx, stage, successful, failed, output,
                   attempts, results>>
    /\ UNCHANGED <<refvars, optvars>>

\* lines 142-153
FoundImages ==
    /\ pc = "scan"
    /\ get_images_to_process(directory) # <<>>
    /\ images' = get_images_to_process(directory)
    /\ pc' = "select_model"
    /\ UNCHANGED <<directory, model_name, idx, stage, successful, failed, output,
                   attempts, results, exitcode, message>>
    /\ UNCHANGED <<refvars, optvars>>

\* one turn of the while loop of select_model on the typed line
select_model(line) ==
    /\ pc = "select_model"
    /\ IF InModels(ChoiceOf(line))
       THEN /\ model_name' = MODELS[ChoiceOf(line)[1]]
            /\ pc' = "select_options"
       ELSE UNCHANGED <<model_name, pc>>
    /\ UNCHANGED <<directory, images, idx, stage, successful, failed, output,
                   attempts, results, exitcode, message>>
    /\ UNCHANGED <<refvars, optvars>>

\* line 170 and lines 173-177: the session is created, the counters start at 0
\* (the frame of select_options is gone)
new_session ==
    /\ pc = "new_session"
    /\ alpha_matting_input' = NoInput
    /\ mask_only_input' = NoInput
    /\ successful' = 0
    /\ failed' = 0
    /\ idx' = 1
    /\ stage' = "none"
    /\ pc' = "loop"
    /\ UNCHANGED <<alpha_matting, only_mask>>
    /\ UNCHANGED <<directory, images, model_name, output, attempts, results,
                   exitcode, message>>
    /\ UNCHANGED refvars

\* line 170 raising an Exception: caught at line 217
new_session_error ==
    /\ pc = "new_session"
    /\ pc' = "exit"
    /\ exitcode' = <<1>>
    /\ message' = "unexpected_error"
    /\ UNCHANGED <<directory, images, model_name, idx, stage, successful, failed,
                   output, attempts, results>>
    /\ UNCHANGED <<refvars, optvars>>

\* line 179-181: the loop takes the next image and calls process_image_advanced
StartImage ==
    /\ pc = "loop"
    /\ stage = "none"
    /\ idx <= Len(images)
    /\ attempts' = Append(attempts, images[idx])
    /\ stage' = "open"
    /\ UNCHANGED <<pc, directory, images, model_name, idx, successful, failed,
                   output, results, exitcode, message>>
    /\ UNCHANGED <<refvars, optvars>>

NextStage(st) ==
    CASE st = "open" -> "remove" [] st = "remove" -> "refine" [] OTHER -> "save"

\* lines 78, 81-89, 92: Image.open, remove and ensure_transparency return
StepOk ==
    /\ pc = "loop"
    /\ stage \in {"open", "remove", "refine"}
    /\ stage' = NextStage(stage)
    /\ UNCHANGED <<pc, directory, images, model_name, idx, successful, failed,
                   output, attempts, results, exitcode, message>>
    /\ UNCHANGED <<refvars, optvars>>

\* The file output_image.save leaves behind: written whole, or cut short.
Written(f, st) == [state |-> st, by |-> f]

\* lines 95-100 and 189-190: the PNG is written, True is returned, main counts it
SaveOk ==
    /\ pc = "loop"
    /\ stage = "save"
    /\ output' = [output EXCEPT ![OutName(images[idx])] = Written(images[idx], "complete")]
    /\ successful' = successful + 1
    /\ results' = Append(results, TRUE)
    /\ idx' = idx + 1
    /\ stage' = "none"
    /\ UNCHANGED <<pc, directory, images, model_name, failed, attempts, exitcode, message>>
    /\ UNCHANGED <<refvars, optvars>>

\* What a save that does not complete does to the output file: nothing (the
\* error comes before the file is opened) or the file is left cut short.
SaveEffect(out, f, eff) ==
    CASE eff = "untouched" -> out
      [] eff = "partial" -> [out EXCEPT ![OutName(f)] = Written(f, "partial")]
      [] OTHER -> [out EXCEPT ![OutName(f)] = Written(f, "complete")]

\* Variant of StepFail in which main counts the image as successful too.
StepFail_miscount(eff) ==
    /\ pc = "loop"
    /\ stage \in {"open", "remove", "refine", "save"}
    /\ eff \in {"untouched", "partial"}
    /\ stage # "save" => eff = "untouched"
    /\ output' = SaveEffect(output, images[idx], eff)
    /\ failed' = failed + 1
    /\ successful' = successful + 1
    /\ results' = Append(results, FALSE)
    /\ idx' = idx + 1
    /\ stage' = "none"
    /\ UNCHANGED <<pc, directory, images, model_name, attempts, exitcode, message>>
    /\ UNCHANGED <<refvars, optvars>>

\* lines 102-104 and 191-192: a step raises an Exception; it is caught, False is
\* returned and main counts the failure
StepFail(eff) ==
    /\ pc = "loop"
    /\ stage \in {"open", "remove", "refine", "save"}
    /\ eff \in {"untouched", "partial"}
    /\ stage # "save" => eff = "untouched"
    /\ output' = SaveEffect(output, images[idx], eff)
    /\ failed' = failed + 1
    /\ results' = Append(results, FALSE)
    /\ idx' = idx + 1
    /\ stage' = "none"
    /\ UNCHANGED <<pc, directory, images, model_name, successful, attempts, exitcode, message>>
    /\ UNCHANGED <<refvars, optvars>>

\* lines 194-209: the loop is over, the summary is printed and main returns
Summary ==
    /\ pc = "loop"
    /\ stage = "none"
    /\ idx > Len(images)
    /\ pc' = "exit"
    /\ exitcode' = <<0>>
    /\ message' = "complete"
    /\ UNCHANGED <<directory, images, model_name, idx, stage, successful, failed,
                   output, attempts, results>>
    /\ UNCHANGED <<refvars, optvars>>

\* KeyboardInterrupt: not an Exception, so line 102 does not catch it; it leaves
\* main and is caught at line 214. Raised inside save, the output file may be
\* untouched, cut short, or already complete.
Interrupt(eff) ==
    /\ pc \in {"select_model", "select_options", "new_session", "loop"}
    /\ eff \in {"untouched", "partial", "complete"}
    /\ ~(pc = "loop" /\ stage = "save") => eff = "untouched"
    /\ output' = IF pc = "loop" /\ stage = "save"
                 THEN SaveEffect(output, images[idx], eff) ELSE output
    /\ pc' = "exit"
    /\ exitcode' = <<1>>
    /\ message' = "interrupted"
    /\ UNCHANGED <<directory, images, model_name, idx, stage, successful, failed,
                   attempts, results>>
    /\ UNCHANGED <<refvars, optvars>>

(***************************************************************************)
(* Specifications                                                          *)
(***************************************************************************)
InitOptVars ==
    /\ alpha_matting_input = NoInput
    /\ mask_only_input = NoInput
    /\ alpha_matting = TRUE
    /\ only_mask = FALSE

InitMainVars ==
    /\ pc = "scan"
    /\ directory \in Directories
    /\ images = <<>>
    /\ model_name = "unset"
    /\ idx = 0
    /\ stage = "none"
    /\ successful = 0
    /\ failed = 0
    /\ output = [n \in OutNames |-> NoFile]
    /\ attempts = <<>>
    /\ results = <<>>
    /\ exitcode = NoExit
    /\ message = "none"

\* The whole run
Init ==
    /\ InitMainVars
    /\ InitOptVars
    /\ image = [mode |-> "RGBA", px |-> <<>>]
    /\ data = NoData /\ hist = <<>> /\ rpc = "idle" /\ run = 0 /\ first = NoData
    /\ orig = image

Next ==
    \/ NoImages
    \/ FoundImages
    \/ \E line \in ModelLines : select_model(line)
    \/ \E a \in AnswerLines, m \in AnswerLines : select_options(a, m)
    \/ new_session
    \/ new_session_error
    \/ StartImage
    \/ StepOk
    \/ SaveOk
    \/ \E eff \in {"untouched", "partial"} : StepFail(eff)
    \/ Summary
    \/ \E eff \in {"untouched", "partial", "complete"} : Interrupt(eff)

Spec == Init /\ [][Next]_vars

\* ensure_transparency alone, on every input image of the bounded domain
InitRefine ==
    /\ InitRefineVars
    /\ InitOptVars
    /\ pc = "refine_only"
    /\ directory = {} /\ images = <<>> /\ model_name = "unset" /\ idx = 0
    /\ stage = "none" /\ successful = 0 /\ failed = 0
    /\ output = [n \in OutNames |-> NoFile]
    /\ attempts = <<>> /\ results = <<>> /\ exitcode = NoExit /\ message = "none"

NextRefine ==
    \/ LoadData
    \/ Pass1Step
    \/ Pass2Step
    \/ Pass3Step
    \/ Reapply

SpecRefine == InitRefine /\ [][NextRefine]_vars

\* select_options alone, on every pair of typed answers of the bounded domain
InitOptions ==
    /\ InitOptVars
    /\ pc = "select_options"
    /\ directory = {Entry("a", ".jpg", TRUE)}
    /\ images = get_images_to_process(directory)
    /\ model_name = "u2net" /\ idx = 0
    /\ stage = "none" /\ successful = 0 /\ failed = 0
    /\ output = [n \in OutNames |-> NoFile]
    /\ attempts = <<>> /\ results = <<>> /\ exitcode = NoExit /\ message = "none"
    /\ image = [mode |-> "RGBA", px |-> <<>>]
    /\ data = NoData /\ hist = <<>> /\ rpc = "idle" /\ run = 0 /\ first = NoData
    /\ orig = image

NextOptions ==
    /\ pc = "select_options"
    /\ \E a \in Typed, m \in Typed : select_options(a, m)

SpecOptions == InitOptions /\ [][NextOptions]_vars

(***************************************************************************)
(* Properties of ensure_transparency (stated for SpecRefine).           *)
(* hist[1] is the RGBA buffer the passes start from, hist[k+1] the buffer  *)
(* after pass k.                                                           *)
(***************************************************************************)
AllAbove(p, t) == p[1] > t /\ p[2] > t /\ p[3] > t
SameRGB(p, q) == p[1] = q[1] /\ p[2] = q[2] /\ p[3] = q[3]
ZeroAlpha(p) == <<p[1], p[2], p[3], 0>>

\* C1: a pixel whose R, G and B are all above 240 is refined to
\* (255,255,255,0) whatever its alpha; any other pixel is left as it is by
\* pass 1 and has its input R, G, B in the refined buffer.
C1_NearWhite ==
    /\ Len(hist) >= 2 =>
         \A c \in DOMAIN hist[1] :
            ~AllAbove(hist[1][c], 240) => hist[2][c] = hist[1][c]
    /\ rpc = "return" =>
         \A c \in DOMAIN hist[1] :
            IF AllAbove(hist[1][c], 240)
            THEN data[c] = <<255, 255, 255, 0>>
            ELSE SameRGB(data[c], hist[1][c])

C1_Witness ==
    /\ rpc = "return" /\ run = 1
    /\ orig.mode = "RGBA"
    /\ orig.px[<<1, 1>>] = <<241, 241, 241, 255>>
    /\ data[<<1, 1>>] = <<255, 255, 255, 0>>

\* C2: a pixel with alpha strictly between 0 and 200 and a mean of R, G, B
\* (on the full, unwrapped sum) above 200 when pass 3 evaluates it gets alpha 0
\* and keeps R, G, B.
C2_EdgeCleanup ==
    Len(hist) >= 4 =>
        \A c \in DOMAIN hist[3] :
            LET p == hist[3][c] IN
            (p[4] > 0 /\ p[4] < 200 /\ p[1] + p[2] + p[3] > 3 * 200)
                => hist[4][c] = ZeroAlpha(p)

\* C3: pass 2 zeroes the alpha of every pixel whose alpha after pass 1 is below
\* 50, keeping its R, G, B, and changes no pixel whose alpha is 50 or more.
C3_LowAlphaSnap ==
    Len(hist) >= 3 =>
        \A c \in DOMAIN hist[2] :
            IF hist[2][c][4] < 50
            THEN hist[3][c] = ZeroAlpha(hist[2][c])
            ELSE hist[3][c] = hist[2][c]

C3_Witness ==
    /\ Len(hist) >= 3
    /\ \E c \in DOMAIN hist[2] : hist[2][c][4] = 49 /\ hist[3][c][4] = 0

\* C4: the refinement of a refined buffer is that buffer.
C4_Idempotent ==
    (run = 2 /\ rpc = "return") => data = first

C4_Witness ==
    /\ run = 2 /\ rpc = "return"
    /\ orig.mode = "RGBA"
    /\ orig.px[<<1, 1>>] = <<10, 10, 10, 30>>
    /\ first[<<1, 1>>] = <<10, 10, 10, 0>>
    /\ data = first

\* C10: the refined buffer has the shape of the input, every output alpha is 0
\* or the input alpha, and no output alpha lies in 1..49.
C10_AlphaInvariant ==
    (rpc = "return" /\ image.mode = "RGBA") =>
        /\ DOMAIN data = DOMAIN image.px
        /\ \A c \in DOMAIN data :
            /\ data[c][4] \in {0, image.px[c][4]}
            /\ data[c][4] <= image.px[c][4]
            /\ data[c][4] \notin 1..49

C10_Witness ==
    /\ rpc = "return" /\ run = 1 /\ orig.mode = "RGBA"
    /\ Cardinality(DOMAIN data) = 4
    /\ \E c \in DOMAIN data : orig.px[c][4] = 30 /\ data[c][4] = 0
    /\ \E c \in DOMAIN data : orig.px[c][4] = 255 /\ data[c][4] = 255

\* The three passes applied in the order o, each to the result of the one
\* before, and the three predicates evaluated on the unmodified buffer.
ApplyPass(i, d) == CASE i = 1 -> Pass1(d) [] i = 2 -> Pass2(d) [] OTHER -> Pass3(d)
Orders == {o \in [1..3 -> 1..3] : {o[1], o[2], o[3]} = 1..3}
RefineOrder(d, o) == ApplyPass(o[3], ApplyPass(o[2], ApplyPass(o[1], d)))
Simultaneous(d) ==
    [c \in DOMAIN d |->
        IF c \in white_pixels(d) THEN <<255, 255, 255, 0>>
        ELSE IF c \in semi_transparent(d) \cup edge_white(d) THEN ZeroAlpha(d[c])
        ELSE d[c]]
Reordered(d) == {RefineOrder(d, o) : o \in Orders} \cup {Simultaneous(d)}

\* C9 as stated: some RGBA pixel is refined differently when the passes run in
\* another order, or on the unmodified buffer, than in the order 1, 2, 3.
C9_OrderDependent ==
    rpc = "return" =>
        \E img \in SinglePixelImages :
            \E r \in Reordered(img.px) : r # RefineOrder(img.px, <<1, 2, 3>>)

\* C9 as amended: each pass works on the buffer the previous pass left, and
\* the refined buffer is the one every other order of the passes, and the
\* evaluation of the three predicates on the unmodified buffer, also produce.
C9_OrderIndependent ==
    rpc = "return" =>
        /\ hist[2] = Pass1(hist[1]) /\ hist[3] = Pass2(hist[2]) /\ hist[4] = Pass3(hist[3])
        /\ \A r \in Reordered(hist[1]) : r = data

C9_Witness ==
    /\ rpc = "return" /\ run = 1
    /\ orig.mode = "RGBA"
    /\ orig.px[<<1, 1>>] = <<241, 241, 241, 30>>
    /\ white_pixels(hist[1]) # {} /\ semi_transparent(hist[1]) # {}
    /\ semi_transparent(hist[2]) # {}
    /\ data[<<1, 1>>] = <<255, 255, 255, 0>>

(***************************************************************************)
(* Properties of select_options (stated for SpecOptions).               *)
(***************************************************************************)
\* The answer is the letter ch, in either case, with only blanks around it.
IsLetter(s, lower, upper) ==
    \E i \in 1..Len(s) :
        /\ s[i] \in {lower, upper}
        /\ \A j \in (1..Len(s)) \ {i} : s[j] = " "

\* C8 as stated: alpha matting is off only for the typed answer `n`, and
\* mask-only is on only for the typed answer `y`.
C8_LiteralAnswers ==
    pc = "new_session" =>
        /\ alpha_matting = (alpha_matting_input # <<"n">>)
        /\ only_mask = (mask_only_input = <<"y">>)

\* C8 as amended: the answers are compared after stripping blanks and
\* lower-casing; alpha matting is off exactly for an answer that is then `n`
\* and on for every other one, the empty one included; mask-only is on exactly
\* for an answer that is then `y` and off for every other one.
C8_NormalisedAnswers ==
    pc = "new_session" =>
        /\ alpha_matting = ~IsLetter(alpha_matting_input, "n", "N")
        /\ only_mask = IsLetter(mask_only_input, "y", "Y")

C8_Witness ==
    /\ pc = "new_session"
    /\ alpha_matting_input = <<" ", "N">> /\ ~alpha_matting
    /\ mask_only_input = <<>> /\ ~only_mask

(***************************************************************************)
(* Properties of the batch (stated for Spec).                           *)
(***************************************************************************)
Count(seq, v) == Cardinality({i \in 1..Len(seq) : seq[i] = v})
Eligible(dir) ==
    {f \in dir : f.is_file /\ f.suffix \in {".jpg", ".JPG", ".png"}}

\* C5: the loop calls process_image_advanced once for each image, in sorted
\* order, whichever of them raise an error; a failure adds one to failed only,
\* a success one to successful only, and the loop ends with
\* successful + failed = N.
C5_FailureIsolation ==
    /\ successful = Count(results, TRUE)
    /\ failed = Count(results, FALSE)
    /\ Len(attempts) <= Len(images)
    /\ \A i \in 1..Len(attempts) : attempts[i] = images[i]
    /\ \A i, j \in 1..Len(images) : i < j => PathLess(images[i], images[j])
    /\ message = "complete" =>
        /\ attempts = images
        /\ {images[i] : i \in 1..Len(images)} = Eligible(directory)
        /\ Len(images) = Cardinality(Eligible(directory))
        /\ successful + failed = Len(images)

C5_Witness ==
    /\ message = "complete"
    /\ Len(images) = 3
    /\ results = <<TRUE, FALSE, TRUE>>
    /\ successful = 2 /\ failed = 1

\* C6: when the batch is complete the output folder holds, for each image that
\* was processed successfully, the PNG named after its stem and written from
\* it, and as many files as there were successes.
C6_OneOutputPerSuccess ==
    message = "complete" =>
        /\ \A i \in 1..Len(images) :
            results[i] => output[OutName(images[i])] = Written(images[i], "complete")
        /\ Cardinality({n \in OutNames : output[n].state = "complete"}) = successful

\* C7: an interruption while image k is processed ends the run with the
\* interruption message and status 1, adds nothing to failed or successful,
\* starts no further image and leaves the outputs of the images before k as
\* they are; an error at the same point is counted as a failure and the loop
\* goes on with image k+1.
C7_InterruptNotAbsorbed ==
    [][/\ (pc = "loop" /\ stage # "none" /\ pc' = "exit") =>
            /\ message' = "interrupted" /\ exitcode' = <<1>>
            /\ failed' = failed /\ successful' = successful
            /\ attempts' = attempts
            /\ \A j \in 1..(idx - 1) :
                results[j] => output'[OutName(images[j])] = output[OutName(images[j])]
       /\ pc = "exit" => attempts' = attempts
       /\ (pc = "loop" /\ stage # "none" /\ Len(results') > Len(results)
            /\ results'[Len(results')] = FALSE) =>
            /\ failed' = failed + 1 /\ successful' = successful
            /\ pc' = "loop" /\ idx' = idx + 1 /\ stage' = "none"
      ]_vars

====
